---------------------------- MODULE Spec2Model ----------------------------
(***************************************************************************)
(* A model of the Condor forecasting core:                                 *)
(*   - generate_auto_arimax_test_params (candidate generation)             *)
(*   - make_stationary / adf_test        (stationarity transform)          *)
(*   - interpolate_stock_prices          (value gap filling)               *)
(*   - check_generated_arimax_params, optimize_arimax_params,              *)
(*     auto_arimax_optimizer             (parallel model-order search)     *)
(*   - smooth_lowess                     (smoother)                        *)
(*   - process_missing_dates,                                              *)
(*     pull_stock_price_history          (calendar normalization)          *)
(*   - arimax_forecast,                                                    *)
(*     calculate_forecast_prediction_interval (forecast and its interval)  *)
(*   - ForecastARIMAX (__init__, fit, forecast) (the forecaster object)    *)
(* Library calls (adfuller, ARIMA.fit, Nelder-Mead, lowess) are oracles    *)
(* whose outcome is drawn when the call is made.                           *)
(***************************************************************************)
EXTENDS Integers, Sequences, FiniteSets, TLC

VARIABLES
    gen_pc,      \* generate_auto_arimax_test_params: "idle" | "returned" | "raised"
    gen_in,      \* its arguments
    gen_out,     \* its return value
    ms_pc,       \* make_stationary: "idle" | "returned" | "raised"
    ms_in,       \* its arguments and the outcomes of the ADF tests it will run
    ms_out,      \* its return value (series, order) and the number of tests run
    ip_pc,       \* interpolate_stock_prices: "idle" | "checked" | "filled" | "returned" | "raised"
    ip_in,       \* its arguments
    ip_loc,      \* its local variables
    ip_out,      \* its return value
    opt_pc,      \* optimize_arimax_params called directly: "idle" | "returned" | "raised"
    opt_in,      \* its arguments and what the model fit of each order of the chunk does
    opt_out,     \* its return value, its exception, the number of orders evaluated
    aao_pc,      \* auto_arimax_optimizer: "idle" | "collecting" | "returned" | "raised"
    aao_in,      \* its arguments and the host's CPU count
    aao_out,     \* its return value and its exception
    pool,        \* the multiprocessing pool: "none" | "open" | "closed"
    processes,   \* the number of worker processes the pool was created with
    chunks,      \* the chunks handed to imap_unordered, one task each
    task_result, \* per task: <<>> while queued, else what the worker call produced
    completed,   \* the tasks in the order their workers finished
    collected,   \* how many results the for loop has taken from the iterator
    results,     \* the list the for loop accumulates
    sm_pc,       \* smooth_lowess called directly: "idle" | "returned" | "raised"
    sm_in,       \* its arguments
    sm_out,      \* its return value and its exception
    pmd_pc,      \* process_missing_dates called directly: "idle" | "returned" | "raised"
    pmd_in,      \* its arguments
    pmd_out,     \* its return value, its exception, whether reindex was reached
    psh_pc,      \* pull_stock_price_history: "idle" | "downloaded" | "returned" | "raised"
    psh_in,      \* its arguments and the frame the provider returned
    psh_out,     \* its return value and its exception
    fc_pc,       \* arimax_forecast: "idle" | "returned" | "raised"
    fc_in,       \* its arguments
    fc_out,      \* its return value, its exception, the models constructed and fitted
    pi_pc,       \* calculate_forecast_prediction_interval: "idle" | "returned" | "raised"
    pi_in,       \* its arguments
    pi_out,      \* its return value
    fa_pc,       \* ForecastARIMAX: "none" | "ready" (constructed) | "raised" (__init__ raised)
    fa_obj,      \* the object's attributes
    fa_hist      \* the method calls made on the object and how each ended

genVars == <<gen_pc, gen_in, gen_out>>

msVars == <<ms_pc, ms_in, ms_out>>

ipVars == <<ip_pc, ip_in, ip_loc, ip_out>>

optVars == <<opt_pc, opt_in, opt_out>>

aaoVars == <<aao_pc, aao_in, aao_out, pool, processes, chunks, task_result, completed, collected, results>>

smVars == <<sm_pc, sm_in, sm_out>>

pmdVars == <<pmd_pc, pmd_in, pmd_out>>

pshVars == <<psh_pc, psh_in, psh_out>>

fcVars == <<fc_pc, fc_in, fc_out>>

piVars == <<pi_pc, pi_in, pi_out>>

faVars == <<fa_pc, fa_obj, fa_hist>>

vars == <<gen_pc, gen_in, gen_out, ms_pc, ms_in, ms_out, ip_pc, ip_in, ip_loc, ip_out, opt_pc, opt_in, opt_out, aao_pc, aao_in, aao_out, pool, processes, chunks, task_result, completed, collected, results, sm_pc, sm_in, sm_out, pmd_pc, pmd_in, pmd_out, psh_pc, psh_in, psh_out, fc_pc, fc_in, fc_out, pi_pc, pi_in, pi_out, fa_pc, fa_obj, fa_hist>>

\* What a call of one entry point leaves alone: the other entry points' state.
notGenVars == <<msVars, ipVars, optVars, aaoVars, smVars, pmdVars, pshVars, fcVars, piVars, faVars>>

notMsVars == <<genVars, ipVars, optVars, aaoVars, smVars, pmdVars, pshVars, fcVars, piVars, faVars>>

notIpVars == <<genVars, msVars, optVars, aaoVars, smVars, pmdVars, pshVars, fcVars, piVars, faVars>>

notOptVars == <<genVars, msVars, ipVars, aaoVars, smVars, pmdVars, pshVars, fcVars, piVars, faVars>>

notAaoVars == <<genVars, msVars, ipVars, optVars, smVars, pmdVars, pshVars, fcVars, piVars, faVars>>

notSmVars == <<genVars, msVars, ipVars, optVars, aaoVars, pmdVars, pshVars, fcVars, piVars, faVars>>

notPmdVars == <<genVars, msVars, ipVars, optVars, aaoVars, smVars, pshVars, fcVars, piVars, faVars>>

notPshVars == <<genVars, msVars, ipVars, optVars, aaoVars, smVars, pmdVars, fcVars, piVars, faVars>>

notFcVars == <<genVars, msVars, ipVars, optVars, aaoVars, smVars, pmdVars, pshVars, piVars, faVars>>

notPiVars == <<genVars, msVars, ipVars, optVars, aaoVars, smVars, pmdVars, pshVars, fcVars, faVars>>

notFaVars == <<genVars, msVars, ipVars, optVars, aaoVars, smVars, pmdVars, pshVars, fcVars, piVars>>

\* No call of the entry point has been made yet.
GenIdle ==
    /\ gen_pc = "idle"
    /\ gen_in = <<>>
    /\ gen_out = <<>>

MsIdle ==
    /\ ms_pc = "idle"
    /\ ms_in = <<>>
    /\ ms_out = <<>>

IpIdle ==
    /\ ip_pc = "idle"
    /\ ip_in = <<>>
    /\ ip_loc = <<>>
    /\ ip_out = <<>>

OptIdle ==
    /\ opt_pc = "idle"
    /\ opt_in = <<>>
    /\ opt_out = <<>>

AaoIdle ==
    /\ aao_pc = "idle"
    /\ aao_in = <<>>
    /\ aao_out = <<>>
    /\ pool = "none"
    /\ processes = 0
    /\ chunks = <<>>
    /\ task_result = <<>>
    /\ completed = <<>>
    /\ collected = 0
    /\ results = <<>>

SmIdle ==
    /\ sm_pc = "idle"
    /\ sm_in = <<>>
    /\ sm_out = <<>>

PmdIdle ==
    /\ pmd_pc = "idle"
    /\ pmd_in = <<>>
    /\ pmd_out = <<>>

PshIdle ==
    /\ psh_pc = "idle"
    /\ psh_in = <<>>
    /\ psh_out = <<>>

FcIdle ==
    /\ fc_pc = "idle"
    /\ fc_in = <<>>
    /\ fc_out = <<>>

PiIdle ==
    /\ pi_pc = "idle"
    /\ pi_in = <<>>
    /\ pi_out = <<>>

\* No ForecastARIMAX object has been constructed.
FaIdle ==
    /\ fa_pc = "none"
    /\ fa_obj = <<>>
    /\ fa_hist = <<>>

\* The state before any call.
Init ==
    /\ GenIdle /\ MsIdle /\ IpIdle /\ OptIdle /\ AaoIdle
    /\ SmIdle /\ PmdIdle /\ PshIdle /\ FcIdle /\ PiIdle
    /\ FaIdle

----------------------------------------------------------------------------
(* Python values *)

\* Optional[int]: None is the empty sequence, a value x is <<x>>.
None == <<>>

Some(x) == <<x>>

\* No exception / the exceptions the code raises.
NoExc == "none"

----------------------------------------------------------------------------
(* Bounds *)

MaxOrder == 1

MaxSeasonalOrder == 1

\* Longest series passed to make_stationary.
MaxLen == 4

\* Largest max_diff passed to make_stationary.
MaxDiffArg == 2

\* Longest series passed to interpolate_stock_prices.
MaxIpLen == 4

\* Longest candidate list (arimax_test_params, params_chunk).
MaxCandidates == 3

----------------------------------------------------------------------------
(* generate_auto_arimax_test_params *)

\* range(n) as a sequence: 0, 1, ..., n-1 (empty when n <= 0).
Range(n) == [i \in 1..n |-> i - 1]

RECURSIVE Concat(_)
\* Concatenation of a sequence of sequences, in order.
Concat(ss) == IF ss = <<>> THEN <<>> ELSE Head(ss) \o Concat(Tail(ss))

RECURSIVE ProductMutant(_)
\* Mutant: the first iterable varies fastest.
ProductMutant(lists) ==
    IF lists = <<>> THEN << <<>> >>
    ELSE LET rest == ProductMutant(Tail(lists))
             hd == Head(lists)
         IN Concat([j \in 1..Len(rest) |->
                       [i \in 1..Len(hd) |-> <<hd[i]>> \o rest[j]]])

RECURSIVE Product(_)
\* itertools.product(*lists): tuples in odometer order, last iterable fastest.
Product(lists) ==
    IF lists = <<>> THEN << <<>> >>
    ELSE LET rest == Product(Tail(lists))
             hd == Head(lists)
         IN Concat([i \in 1..Len(hd) |->
                       [j \in 1..Len(rest) |-> <<hd[i]>> \o rest[j]]])

\* Mutant: the periodicity is not checked.
MissingPeriodicityMutant(generate_seasonal_params, seasonality_trend) == FALSE

\* Lines 85-88: seasonal generation requested and seasonality_trend is None.
MissingPeriodicity(generate_seasonal_params, seasonality_trend) ==
    generate_seasonal_params /\ seasonality_trend = None

generate_auto_arimax_test_params(max_p, max_d, max_q, d, generate_seasonal_params, max_P, max_D, max_Q, seasonality_trend) ==
    IF MissingPeriodicity(generate_seasonal_params, seasonality_trend)
    THEN [exc |-> "ValueError", value |-> <<>>]
    ELSE
      LET non_seasonal_params ==
              IF d = None
              THEN Product(<<Range(max_p + 1), Range(max_d + 1), Range(max_q + 1)>>)
              ELSE Product(<<Range(max_p + 1), d, Range(max_q + 1)>>)
          seasonal_params ==
              Product(<<Range(max_P + 1), Range(max_D + 1), Range(max_Q + 1),
                        seasonality_trend>>)
          \* product of the two lists of tuples, each pair flattened to a 7-tuple
          pairs == Product(<<non_seasonal_params, seasonal_params>>)
          arimax_test_params ==
              IF generate_seasonal_params
              THEN [i \in 1..Len(pairs) |-> pairs[i][1] \o pairs[i][2]]
              ELSE non_seasonal_params
      IN [exc |-> NoExc, value |-> arimax_test_params]

GenArgs ==
    [max_p : 0..MaxOrder, max_d : 0..MaxOrder, max_q : 0..MaxOrder,
     d : {None} \cup {Some(x) : x \in 0..MaxOrder},
     generate_seasonal_params : BOOLEAN,
     max_P : 0..MaxSeasonalOrder, max_D : 0..MaxSeasonalOrder,
     max_Q : 0..MaxSeasonalOrder,
     seasonality_trend : {None, Some(4), Some(12)}]

\* One call of generate_auto_arimax_test_params.
GenCall ==
    /\ gen_pc = "idle"
    /\ \E a \in GenArgs :
         LET r == generate_auto_arimax_test_params(
                      a.max_p, a.max_d, a.max_q, a.d, a.generate_seasonal_params,
                      a.max_P, a.max_D, a.max_Q, a.seasonality_trend)
         IN /\ gen_in' = a
            /\ gen_out' = r.value
            /\ gen_pc' = IF r.exc = NoExc THEN "returned" ELSE "raised"
    /\ UNCHANGED notGenVars

GenNext == GenCall

SpecGenerate == Init /\ [][GenNext]_vars

\* a comes strictly before b in lexicographic order (equal lengths).
LexLess(a, b) ==
    \E k \in 1..Len(a) : a[k] < b[k] /\ \A j \in 1..(k - 1) : a[j] = b[j]

\* The differencing orders the call asks for: {0..max_d}, or {d} when d is given.
GenDSet(a) == IF a.d = None THEN 0..a.max_d ELSE {a.d[1]}

GenTriples(a) ==
    {<<p, dd, q>> : p \in 0..a.max_p, dd \in GenDSet(a), q \in 0..a.max_q}

GenSeasonal(a) ==
    {<<P, D, Q, a.seasonality_trend[1]>> :
        P \in 0..a.max_P, D \in 0..a.max_D, Q \in 0..a.max_Q}

GenExpected(a) ==
    IF a.generate_seasonal_params
    THEN {t \o s : t \in GenTriples(a), s \in GenSeasonal(a)}
    ELSE GenTriples(a)

\* C10: generate_auto_arimax_test_params returns exactly the Cartesian product
\* {0..max_p} x D x {0..max_q} (D = {0..max_d}, or {d} when d is given), crossed
\* with {0..max_P} x {0..max_D} x {0..max_Q} x {s} when seasonal generation is on,
\* in strictly increasing lexicographic order (hence without duplicates), of
\* length (max_p+1)*|D|*(max_q+1) (times the seasonal count), every 7-tuple ending
\* in s; max_p=1, max_d=0, max_q=1 gives (0,0,0),(0,0,1),(1,0,0),(1,0,1).
C10_CartesianProduct ==
    gen_pc = "returned" =>
        LET a == gen_in
            n3 == (a.max_p + 1) * Cardinality(GenDSet(a)) * (a.max_q + 1)
            n4 == (a.max_P + 1) * (a.max_D + 1) * (a.max_Q + 1)
        IN /\ {gen_out[i] : i \in 1..Len(gen_out)} = GenExpected(a)
           /\ \A i \in 1..(Len(gen_out) - 1) : LexLess(gen_out[i], gen_out[i + 1])
           /\ Len(gen_out) = IF a.generate_seasonal_params THEN n3 * n4 ELSE n3
           /\ a.generate_seasonal_params =>
                 \A i \in 1..Len(gen_out) :
                    /\ Len(gen_out[i]) = 7
                    /\ gen_out[i][7] = a.seasonality_trend[1]
           /\ ~a.generate_seasonal_params =>
                 \A i \in 1..Len(gen_out) : Len(gen_out[i]) = 3
           /\ (a.max_p = 1 /\ a.max_d = 0 /\ a.max_q = 1 /\ a.d = None
               /\ ~a.generate_seasonal_params) =>
                 gen_out = << <<0, 0, 0>>, <<0, 0, 1>>, <<1, 0, 0>>, <<1, 0, 1>> >>

\* A seasonal call with a fixed d that returned at least 8 seven-tuples.
C10_Witness ==
    /\ gen_pc = "returned"
    /\ gen_in.generate_seasonal_params
    /\ gen_in.d # None
    /\ gen_in.max_p = 1 /\ gen_in.max_q = 1 /\ gen_in.max_Q = 1
    /\ Len(gen_out) >= 8

----------------------------------------------------------------------------
(* pandas Series: a sequence of points [i |-> label, k |-> kind, v |-> number].   *)
(* kind "num": the number v; "nan": NaN (v = 0).                                  *)

Num(label, x) == [i |-> label, k |-> "num", v |-> x]

NaN(label) == [i |-> label, k |-> "nan", v |-> 0]

IsNaN(p) == p.k = "nan"

\* A Series with the default RangeIndex 0..n-1 holding the numbers xs.
RangeSeries(xs) == [j \in 1..Len(xs) |-> Num(j - 1, xs[j])]

\* Series.diff(): the first point is NaN, point j is x[j] - x[j-1] (NaN when
\* either operand is NaN); labels are kept.
SeriesDiff(s) ==
    [j \in 1..Len(s) |->
        IF j = 1 \/ IsNaN(s[j]) \/ IsNaN(s[j - 1])
        THEN NaN(s[j].i)
        ELSE Num(s[j].i, s[j].v - s[j - 1].v)]

\* Series.dropna(): the points that are not NaN, labels kept.
DropNa(s) == SelectSeq(s, LAMBDA p : ~IsNaN(p))

----------------------------------------------------------------------------
(* adf_test and make_stationary (stationarity_and_transformation.py)              *)

\* Outcomes of adfuller on one series: p-value below the critical value, p-value
\* not below it, or an exception of the library (too short or degenerate input).
AdfOutcomes == {"stationary", "not_stationary", "error"}

\* adf_test(series): the library's verdict for this series, adf[level] being the
\* outcome for the series differenced level times; an empty series or one with a
\* non-finite value always errors.
adf_test(series, outcome) ==
    IF series = <<>> \/ \E j \in 1..Len(series) : IsNaN(series[j])
    THEN "error"
    ELSE outcome

\* Mutant: one differencing too many (i <= max_diff).
MsContinueMutant(is_stationary, i, max_diff) == ~is_stationary /\ i <= max_diff

\* The loop condition: while not is_stationary and i < max_diff.
MsContinue(is_stationary, i, max_diff) == ~is_stationary /\ i < max_diff

\* Mutant: the partially differenced series is returned when no order passed.
MsResultMutant(y_series, diff_series, i, is_stationary) ==
    [series |-> diff_series, order |-> i]

\* Mutant: the original series is returned with the order reached.
MsResultSeriesMutant(y_series, diff_series, i, is_stationary) ==
    IF ~is_stationary
    THEN [series |-> y_series, order |-> 0]
    ELSE [series |-> y_series, order |-> i]

\* The return statements: (y_series, 0) when not stationary, else (diff_series, i).
MsResult(y_series, diff_series, i, is_stationary) ==
    IF ~is_stationary
    THEN [series |-> y_series, order |-> 0]
    ELSE [series |-> diff_series, order |-> i]

RECURSIVE MsLoop(_, _, _, _, _, _, _)
\* The while loop, from the state (diff_series, i, is_stationary) with `tests`
\* ADF tests run so far.
MsLoop(y_series, diff_series, i, is_stationary, max_diff, adf, tests) ==
    IF MsContinue(is_stationary, i, max_diff)
    THEN LET next_series == DropNa(SeriesDiff(diff_series))
             verdict == adf_test(next_series, adf[i + 1])
         IN IF verdict = "error"
            THEN [exc |-> "ValueError", series |-> <<>>, order |-> 0,
                  tests |-> tests + 1]
            ELSE MsLoop(y_series, next_series, i + 1, verdict = "stationary",
                        max_diff, adf, tests + 1)
    ELSE LET r == MsResult(y_series, diff_series, i, is_stationary)
         IN [exc |-> NoExc, series |-> r.series, order |-> r.order, tests |-> tests]

make_stationary(y_series, max_diff, adf) ==
    LET verdict == adf_test(y_series, adf[0])
    IN IF verdict = "error"
       THEN [exc |-> "ValueError", series |-> <<>>, order |-> 0, tests |-> 1]
       ELSE MsLoop(y_series, y_series, 0, verdict = "stationary", max_diff, adf, 1)

\* Numbers a test series is built from.
MsValues == {1, 2, 4}

MsSeries == UNION {{RangeSeries(xs) : xs \in [1..n -> MsValues]} : n \in 0..MaxLen}

\* One call of make_stationary; adf fixes what the library will answer for the
\* input differenced 0, 1, ... times.
MsCall ==
    /\ ms_pc = "idle"
    /\ \E y \in MsSeries, md \in 0..MaxDiffArg :
         \E adf \in [0..(md + 1) -> AdfOutcomes] :
            LET r == make_stationary(y, md, adf)
            IN /\ ms_in' = [y_series |-> y, max_diff |-> md, adf |-> adf]
               /\ ms_out' = [series |-> r.series, order |-> r.order, tests |-> r.tests]
               /\ ms_pc' = IF r.exc = NoExc THEN "returned" ELSE "raised"
    /\ UNCHANGED notMsVars

MsNext == MsCall

SpecStationary == Init /\ [][MsNext]_vars

RECURSIVE DiffTimes(_, _)
\* s differenced n times as make_stationary does it.
DiffTimes(s, n) == IF n = 0 THEN s ELSE DiffTimes(DropNa(SeriesDiff(s)), n - 1)

\* The verdict the library gives for the input differenced level times.
MsVerdict(level) == adf_test(DiffTimes(ms_in.y_series, level), ms_in.adf[level])

\* C6: if neither the input nor any of its 1..max_diff-fold differences passes
\* the stationarity test, make_stationary returns the original series (same
\* values, same length) with order 0, and raises nothing.
C6_FallbackToOriginal ==
    (/\ ms_pc # "idle"
     /\ \A level \in 0..ms_in.max_diff : MsVerdict(level) = "not_stationary")
    => /\ ms_pc = "returned"
       /\ ms_out.series = ms_in.y_series
       /\ ms_out.order = 0

\* A call with max_diff = 2 on a series of four points where all three tests failed.
C6_Witness ==
    /\ ms_pc = "returned"
    /\ ms_in.max_diff = 2
    /\ Len(ms_in.y_series) = 4
    /\ \A level \in 0..2 : MsVerdict(level) = "not_stationary"
    /\ ms_out.tests = 3

\* C7: the differencing order returned by make_stationary is in [0, max_diff],
\* for every input series and every max_diff >= 0.
C7_OrderInRange ==
    ms_pc = "returned" => ms_out.order \in 0..ms_in.max_diff

\* A call that returned the largest order the caller allowed.
C7_Witness ==
    /\ ms_pc = "returned"
    /\ ms_in.max_diff = 2
    /\ ms_out.order = 2

----------------------------------------------------------------------------
(* interpolate_stock_prices (data_preprocessing.py) and its collaborators         *)

\* More kinds of point: "exp" is the number exp(v) - 1 for a v whose image is
\* off the grid below; "log" is log(1 + v) likewise; "smooth" is the value the
\* smoother computed for position v (finite and non-zero).
Tagged(label, kind, x) == [i |-> label, k |-> kind, v |-> x]

IsZero(p) == p.k = "num" /\ p.v = 0

\* Logarithms and exponentials are taken to base 3 on the grid 3^n - 1, where they
\* are exact in integers: log1p(0) = 0, log1p(2) = 1, log1p(8) = 2, log1p(26) = 3.
\* Like the natural ones they are strictly increasing, inverse to each other, and
\* fix only 0.
Log1pPoint(p) ==
    CASE p.k # "num" -> NaN(p.i)
      [] p.v <= -1 -> NaN(p.i)
      [] p.v = 0 -> Num(p.i, 0)
      [] p.v = 2 -> Num(p.i, 1)
      [] p.v = 8 -> Num(p.i, 2)
      [] p.v = 26 -> Num(p.i, 3)
      [] OTHER -> Tagged(p.i, "log", p.v)

Expm1Point(p) ==
    CASE p.k = "log" -> Num(p.i, p.v)
      [] p.k # "num" -> NaN(p.i)
      [] p.v \in 0..3 -> Num(p.i, 3 ^ p.v - 1)
      [] OTHER -> Tagged(p.i, "exp", p.v)

\* np.log1p / np.expm1 of a Series or array, elementwise.
Log1p(s) == [j \in 1..Len(s) |-> Log1pPoint(s[j])]

Expm1(s) == [j \in 1..Len(s) |-> Expm1Point(s[j])]

\* Whether the Series has a point labelled label / the first such point.
HasLabel(s, label) == \E j \in 1..Len(s) : s[j].i = label

AtLabel(s, label) == s[CHOOSE j \in 1..Len(s) : s[j].i = label]

\* The point q carried to label.
Relabel(q, label) == [q EXCEPT !.i = label]

\* self.where(self.notna(), other): a point of self that is not NaN is kept;
\* elsewhere the value of other at the same label, NaN when other has none.
SeriesWhereNotNa(self, other) ==
    [j \in 1..Len(self) |->
        IF ~IsNaN(self[j]) THEN self[j]
        ELSE IF HasLabel(other, self[j].i) THEN AtLabel(other, self[j].i)
        ELSE NaN(self[j].i)]

\* Mutant: every labelled position is overwritten, not only the NaN ones.
SeriesFillNaMutant(self, value) ==
    [j \in 1..Len(self) |->
        IF HasLabel(value, self[j].i) THEN AtLabel(value, self[j].i) ELSE self[j]]

\* self.fillna(value) with a Series value: a NaN point takes value's point at
\* the same label and stays NaN when value has no such label.
SeriesFillNa(self, value) ==
    [j \in 1..Len(self) |->
        IF ~IsNaN(self[j]) THEN self[j]
        ELSE IF HasLabel(value, self[j].i) THEN AtLabel(value, self[j].i)
        ELSE self[j]]

\* pd.Series(values): the values under a fresh RangeIndex 0..n-1.
NewSeries(values) == [j \in 1..Len(values) |-> Relabel(values[j], j - 1)]

RECURSIVE CumSumFrom(_, _, _)
\* np.cumsum from position j on, acc being the sum so far (a NaN point once
\* anything that is not a number has been added).
CumSumFrom(a, j, acc) ==
    IF j > Len(a) THEN <<>>
    ELSE LET sum == IF acc.k = "num" /\ a[j].k = "num"
                    THEN Num(a[j].i, acc.v + a[j].v)
                    ELSE NaN(a[j].i)
         IN <<sum>> \o CumSumFrom(a, j + 1, sum)

\* np.cumsum(a): running sums, no seed.
CumSum(a) == CumSumFrom(a, 1, Num(0, 0))

RECURSIVE CumSumTimes(_, _)
\* for _ in range(n): a = np.cumsum(a)
CumSumTimes(a, n) == IF n = 0 THEN a ELSE CumSumTimes(CumSum(a), n - 1)

\* The smoothing window and iteration count interpolate_stock_prices passes.
smoothing_window == 4

\* np.log1p(x) is finite for x > -1 (NaN below -1, -inf at -1).
Log1pFinite(p) == ~(p.k = "num" /\ p.v <= -1)

\* What sm.nonparametric.lowess does when it is left with no observation at all.
LowessOutcomes == {"fits", "fails"}

\* Mutant: a window of 2 passes the range check.
SmoothLowessMutant(y_series, window, lowess) ==
    IF window < 2 \/ window > Len(y_series)
    THEN [exc |-> "ValueError", value |-> <<>>]
    ELSE IF \E j \in 1..Len(y_series) : IsNaN(y_series[j]) \/ IsZero(y_series[j])
    THEN [exc |-> "ValueError", value |-> <<>>]
    ELSE LET kept == SelectSeq(y_series, Log1pFinite)
         IN IF kept = <<>> /\ lowess = "fails"
            THEN [exc |-> "LowessError", value |-> <<>>]
            ELSE [exc |-> NoExc,
                  value |-> [j \in 1..Len(kept) |-> Tagged(j - 1, "smooth", j - 1)]]

\* smooth_lowess(y_series, smoothing_window): ValueError for a window outside
\* [3, len] or a series with NaN or zero.  Otherwise lowess runs on log1p of the
\* values against their positions; it drops the observations whose log1p is not
\* finite (missing='drop'), and its fitted values, one per observation kept, come
\* back in a new Series under a fresh RangeIndex.
smooth_lowess(y_series, window, lowess) ==
    IF window < 3 \/ window > Len(y_series)
    THEN [exc |-> "ValueError", value |-> <<>>]
    ELSE IF \E j \in 1..Len(y_series) : IsNaN(y_series[j]) \/ IsZero(y_series[j])
    THEN [exc |-> "ValueError", value |-> <<>>]
    ELSE LET kept == SelectSeq(y_series, Log1pFinite)
         IN IF kept = <<>> /\ lowess = "fails"
            THEN [exc |-> "LowessError", value |-> <<>>]
            ELSE [exc |-> NoExc,
                  value |-> [j \in 1..Len(kept) |-> Tagged(j - 1, "smooth", j - 1)]]

\* The values mu the simplex search of estimate_normal_params may settle at.
MuValues == {0, 1}

\* estimate_normal_params(y_series): NaN and zero points are removed first; the
\* mean of nothing is NaN, otherwise the search returns one of MuValues.
EstimatedMu(y_series) ==
    IF SelectSeq(y_series, LAMBDA p : ~IsNaN(p) /\ ~IsZero(p)) = <<>>
    THEN {NaN(0)}
    ELSE {Num(0, m) : m \in MuValues}

\* Index labels of a Series of n points: the k-th point (k = 1..n) has label
\* offset + k - 1.  Offset 0 is the default RangeIndex; 100 stands for dates.
IndexOffsets == {0, 100}

\* Prices: NaN (a point of kind "nan") or one of these numbers, 0 meaning missing.
PriceValues == {0, 2, 8, -3}

PricePoints(label) == {NaN(label)} \cup {Num(label, x) : x \in PriceValues}

\* The Series of at most MaxIpLen points the entry point is called with.
IpSeries ==
    UNION {{[j \in 1..n |-> Relabel(f[j], off + j - 1)] :
               f \in [1..n -> PricePoints(0)], off \in IndexOffsets} :
           n \in (MaxIpLen - 1)..MaxIpLen}

\* max_diff as interpolate_stock_prices passes it to make_stationary.
ip_max_diff == 2

\* The locals of a call that has not computed them yet.
IpNoLocals ==
    [y_nan |-> <<>>, no_nan_y |-> <<>>, stationary_series |-> <<>>, num_diff |-> 0,
     mu_estimated |-> NaN(0), series_filled |-> <<>>, raised_by |-> "none",
     calls |-> <<>>]

\* Mutant: allow_negative_values is not consulted.
NegativeValuesErrorMutant(no_nan_y, log_transform, allow_negative_values) ==
    /\ ~log_transform
    /\ \E j \in 1..Len(no_nan_y) : no_nan_y[j].k = "num" /\ no_nan_y[j].v < 0

\* Lines 121-128: whether the negative-value ValueError is raised.  The check is
\* the elif of "if log_transform", so it is made only without the log transform.
NegativeValuesError(no_nan_y, log_transform, allow_negative_values) ==
    /\ ~log_transform
    /\ ~allow_negative_values
    /\ \E j \in 1..Len(no_nan_y) : no_nan_y[j].k = "num" /\ no_nan_y[j].v < 0

\* Lines 110-128: copy, zeros to NaN, strip missing slots, log transform or
\* negative-value check.
IpCall ==
    /\ ip_pc = "idle"
    /\ \E y_series \in IpSeries, log_transform \in BOOLEAN, allow_negative_values \in BOOLEAN :
         LET y_nan == [j \in 1..Len(y_series) |->
                          IF IsZero(y_series[j]) THEN NaN(y_series[j].i) ELSE y_series[j]]
             observed == SelectSeq(y_series, LAMBDA p : ~IsZero(p) /\ ~IsNaN(p))
             no_nan_y == IF log_transform THEN Log1p(observed) ELSE observed
         IN /\ ip_in' = [y_series |-> y_series, log_transform |-> log_transform,
                         allow_negative_values |-> allow_negative_values]
            /\ IF NegativeValuesError(no_nan_y, log_transform, allow_negative_values)
               THEN /\ ip_pc' = "raised"
                    /\ ip_loc' = [IpNoLocals EXCEPT !.y_nan = y_nan,
                                                    !.no_nan_y = no_nan_y,
                                                    !.raised_by = "negative_values"]
               ELSE /\ ip_pc' = "checked"
                    /\ ip_loc' = [IpNoLocals EXCEPT !.y_nan = y_nan,
                                                    !.no_nan_y = no_nan_y]
    /\ ip_out' = <<>>
    /\ UNCHANGED notIpVars

\* Lines 130-148: make_stationary, estimate_normal_params, fill the missing
\* slots with mu, reverse the differencing, reverse the log transform.
IpFill ==
    /\ ip_pc = "checked"
    /\ \E adf \in [0..ip_max_diff -> AdfOutcomes] :
         LET r == make_stationary(ip_loc.no_nan_y, ip_max_diff, adf)
         IN IF r.exc # NoExc
            THEN /\ ip_pc' = "raised"
                 /\ ip_loc' = [ip_loc EXCEPT !.raised_by = "make_stationary",
                                             !.calls = <<"make_stationary">>]
            ELSE \E mu \in EstimatedMu(r.series) :
                   LET y == SeriesWhereNotNa(ip_loc.y_nan, r.series)
                       filled == [j \in 1..Len(y) |->
                                     IF ~IsNaN(y[j]) THEN y[j] ELSE Relabel(mu, y[j].i)]
                       undiffed == CumSumTimes(filled, r.order)
                       series_filled == IF ip_in.log_transform THEN Expm1(undiffed)
                                        ELSE undiffed
                   IN /\ ip_pc' = "filled"
                      /\ ip_loc' = [ip_loc EXCEPT !.stationary_series = r.series,
                                                  !.num_diff = r.order,
                                                  !.mu_estimated = mu,
                                                  !.series_filled = series_filled,
                                                  !.calls = <<"make_stationary",
                                                              "estimate_normal_params">>]
    /\ UNCHANGED <<ip_in, ip_out>>
    /\ UNCHANGED notIpVars

\* Lines 150-156: smooth the filled series and put the smoothed values in the
\* place of the NaNs of y_nan.
IpSmooth ==
    /\ ip_pc = "filled"
    /\ \E lowess \in LowessOutcomes :
       LET filled_smooth == smooth_lowess(NewSeries(ip_loc.series_filled), smoothing_window, lowess)
       IN IF filled_smooth.exc # NoExc
          THEN /\ ip_pc' = "raised"
               /\ ip_loc' = [ip_loc EXCEPT !.raised_by = "smooth_lowess",
                                           !.calls = Append(@, "smooth_lowess")]
               /\ ip_out' = ip_out
          ELSE /\ ip_pc' = "returned"
               /\ ip_out' = SeriesFillNa(ip_loc.y_nan, filled_smooth.value)
               /\ ip_loc' = [ip_loc EXCEPT !.calls = Append(@, "smooth_lowess")]
    /\ UNCHANGED ip_in
    /\ UNCHANGED notIpVars

IpNext == IpCall \/ IpFill \/ IpSmooth

SpecGapFill == Init /\ [][IpNext]_vars

\* A slot of the input is missing when it is NaN or zero.
IsMissing(p) == IsNaN(p) \/ IsZero(p)

\* C4: for an input with at least one missing slot, whatever its index labels,
\* a call that returns gives a series of the input's length in which no slot that
\* was NaN or zero in the input is still NaN or zero.
C4_NoMissingSlotLeft ==
    (/\ ip_pc = "returned"
     /\ \E j \in 1..Len(ip_in.y_series) : IsMissing(ip_in.y_series[j]))
    => /\ Len(ip_out) = Len(ip_in.y_series)
       /\ \A j \in 1..Len(ip_in.y_series) :
             IsMissing(ip_in.y_series[j]) => ~IsMissing(ip_out[j])

\* C5: at every position where the input was observed (neither NaN nor zero)
\* the returned series holds exactly the input's point; only positions that were
\* NaN or zero in the input may differ.
C5_ObservedPreserved ==
    ip_pc = "returned" =>
        /\ Len(ip_out) = Len(ip_in.y_series)
        /\ \A j \in 1..Len(ip_in.y_series) :
              ~IsMissing(ip_in.y_series[j]) => ip_out[j] = ip_in.y_series[j]

\* A call that returned with observed slots kept and a missing slot overwritten
\* by a smoothed value.
C5_Witness ==
    /\ ip_pc = "returned"
    /\ \E j \in 1..Len(ip_in.y_series) : ~IsMissing(ip_in.y_series[j])
    /\ \E j \in 1..Len(ip_in.y_series) :
          IsMissing(ip_in.y_series[j]) /\ ip_out[j].k = "smooth"

\* The values of a Series without its labels.
Unlabelled(s) == [j \in 1..Len(s) |-> Relabel(s[j], 0)]

\* C8: differencing a series n times (n in 0..2, as make_stationary does) and then
\* reversing it by n cumulative summations, as the gap-filling pipeline reverses
\* differencing, reconstructs the series.
C8_DiffCumSumRoundTrip ==
    ip_pc = "filled" =>
        Unlabelled(CumSumTimes(ip_loc.stationary_series, ip_loc.num_diff))
            = Unlabelled(ip_loc.no_nan_y)

----------------------------------------------------------------------------
(* check_generated_arimax_params and optimize_arimax_params                       *)
(* (arimax_optimization_and_forecasting.py)                                       *)

\* np.inf: above every score a fit produces.
Inf == 1000

\* AIC values a successful fit reports; its BIC is one more.
ScoreValues == {1, 2}

\* What sm.tsa.arima.ARIMA does with the data at one order: the constructor
\* rejects the order ("invalid_order"), fit() raises ("fit_error": no
\* convergence, a numerical error), or fit() succeeds with an AIC and a BIC.
FitOutcomes ==
    {[kind |-> "ok", aic |-> a, bic |-> a + 1] : a \in ScoreValues}
        \cup {[kind |-> k, aic |-> 0, bic |-> 0] : k \in {"fit_error", "invalid_order"}}

\* Values of penalty_criteria.
PenaltyValues == {"AIC", "BIC", "HQIC"}

\* exog_array is None or an array; trend_params is None or 'c'.
ExogValues == {None, <<"exog">>}

TrendValues == {None, <<"c">>}

\* round(x, 5): the scores of the model are integers, which it leaves as they are.
Round5(x) == x

\* check_generated_arimax_params for one order; model is what ARIMA does with the
\* data at that order.  Lines 163-166 validate, 168-176 construct the model
\* (outside the try), 178-182 fit inside the try, 184-191 pick the criterion.
check_generated_arimax_params(model, exog_array, trend_params, penalty_criteria) ==
    IF exog_array = None /\ trend_params # None
    THEN [exc |-> "ValueError", value |-> 0]
    ELSE IF model.kind = "invalid_order"
    THEN [exc |-> "ValueError", value |-> 0]
    ELSE IF model.kind = "fit_error"
    THEN [exc |-> NoExc, value |-> Inf]
    ELSE IF penalty_criteria = "BIC"
    THEN [exc |-> NoExc, value |-> Round5(model.bic)]
    ELSE IF penalty_criteria = "AIC"
    THEN [exc |-> NoExc, value |-> Round5(model.aic)]
    ELSE [exc |-> "ValueError", value |-> 0]

RECURSIVE OptLoop(_, _, _, _, _, _, _)
\* The for loop of optimize_arimax_params from the j-th order on; y_array[j] is
\* what fitting the j-th order of the chunk to the data does.  An exception of
\* check_generated_arimax_params leaves the loop and the function.
OptLoop(params_chunk, y_array, exog_array, trend_params, penalty_criteria, j, acc) ==
    IF j > Len(params_chunk)
    THEN [exc |-> NoExc, value |-> acc, evaluated |-> j - 1]
    ELSE LET result == check_generated_arimax_params(
                           y_array[j], exog_array, trend_params, penalty_criteria)
         IN IF result.exc # NoExc
            THEN [exc |-> result.exc, value |-> <<>>, evaluated |-> j]
            ELSE OptLoop(params_chunk, y_array, exog_array, trend_params,
                         penalty_criteria, j + 1, Append(acc, result.value))

optimize_arimax_params(params_chunk, y_array, exog_array, trend_params, penalty_criteria) ==
    OptLoop(params_chunk, y_array, exog_array, trend_params, penalty_criteria, 1, <<>>)

\* The number of required positional parameters of optimize_arimax_params.
WorkerArity == 5

\* func(*args) for func = optimize_arimax_params: TypeError unless exactly its
\* five positional parameters are bound; fits is what the fits of the chunk's
\* orders do with the data the call is given.
CallOptimize(args, fits) ==
    IF Len(args) # WorkerArity
    THEN [exc |-> "TypeError", value |-> <<>>, evaluated |-> 0]
    ELSE optimize_arimax_params(args[1], fits, args[3], args[4], args[5])

\* Candidate lists: the first n orders of a generated grid.
CandidateGrid ==
    generate_auto_arimax_test_params(MaxCandidates, 0, 1, None, FALSE, 0, 0, 0, None).value

Candidates(n) == SubSeq(CandidateGrid, 1, n)

\* One direct call optimize_arimax_params(params_chunk, y_array, exog_array,
\* trend_params, penalty_criteria).
OptCall ==
    /\ opt_pc = "idle"
    /\ \E n \in 0..MaxCandidates, exog_array \in ExogValues, trend_params \in TrendValues, penalty_criteria \in PenaltyValues :
         \E fits \in [1..n -> FitOutcomes] :
            LET r == CallOptimize(<<Candidates(n), "y_array", exog_array, trend_params, penalty_criteria>>, fits)
            IN /\ opt_in' = [params_chunk |-> Candidates(n), fits |-> fits,
                             exog_array |-> exog_array, trend_params |-> trend_params,
                             penalty_criteria |-> penalty_criteria]
               /\ opt_out' = [value |-> r.value, exc |-> r.exc, evaluated |-> r.evaluated]
               /\ opt_pc' = IF r.exc = NoExc THEN "returned" ELSE "raised"
    /\ UNCHANGED notOptVars

OptNext == OptCall

SpecWorker == Init /\ [][OptNext]_vars

\* C3: in a validly configured call (trend only with exog, criterion AIC or BIC)
\* an order whose model fit fails for any reason (the fit raises, or the model
\* rejects the order as invalid) is scored Inf, every order of the chunk is
\* evaluated, and no error leaves the worker.
C3_FailedFitScoredInfeasible ==
    (/\ opt_pc # "idle"
     /\ ~(opt_in.exog_array = None /\ opt_in.trend_params # None)
     /\ opt_in.penalty_criteria \in {"AIC", "BIC"})
    => /\ opt_pc = "returned"
       /\ opt_out.evaluated = Len(opt_in.params_chunk)
       /\ Len(opt_out.value) = Len(opt_in.params_chunk)
       /\ \A j \in 1..Len(opt_in.params_chunk) :
             opt_in.fits[j].kind # "ok" => opt_out.value[j] = Inf

----------------------------------------------------------------------------
(* auto_arimax_optimizer (arimax_optimization_and_forecasting.py)                 *)

Min(a, b) == IF a <= b THEN a ELSE b

\* Lines 289-307: n_jobs as Pool and array_split get it (the seasonal branch in
\* between leaves it alone).
EffectiveJobs(n_jobs, cpu_count, max_cores, len) ==
    LET n1 == IF n_jobs < 1 THEN Min(cpu_count, max_cores) ELSE n_jobs
        n2 == Min(n1, len)
        n3 == IF n2 < 1 THEN cpu_count ELSE n2
    IN Min(n3, len)

\* np.array_split(list, n), n >= 1: n contiguous chunks, the first len % n of
\* them one longer than the others.
ArraySplit(list, n) ==
    LET len == Len(list)
        size == len \div n
        extra == len % n
        start(c) == (c - 1) * size + Min(c - 1, extra) + 1
    IN [c \in 1..n |-> SubSeq(list, start(c), start(c + 1) - 1)]

\* pool.imap_unordered(func, iterable) calls func(item): the item, here the tuple
\* (chunk, y_array, exog_array, trend_params, penalty_criteria), is the one
\* positional argument.
ImapArgs(item) == <<item>>

\* A task of the pool before / after a worker has run it; fits is what the model
\* fits of the chunk's orders do with the data in the worker that ran it.
Queued == [state |-> "queued", exc |-> NoExc, value |-> <<>>, fits |-> <<>>]

Done(r, fits) == [state |-> "done", exc |-> r.exc, value |-> r.value, fits |-> fits]

\* list.index(min(list)): the first position of the least element.
MinIndex(list) ==
    CHOOSE i \in 1..Len(list) :
        /\ \A j \in 1..Len(list) : list[i] <= list[j]
        /\ \A j \in 1..(i - 1) : list[j] # list[i]

\* Line 328, [result for chunk_results in results for result in chunk_results]:
\* line 323 extended results with the floats of each chunk, so every element of
\* results is a float, and iterating a float raises TypeError.
FlattenResults(list) ==
    IF list # <<>>
    THEN [exc |-> "TypeError", value |-> <<>>]
    ELSE [exc |-> NoExc, value |-> <<>>]

\* Lines 328-332: flatten, index of the minimum, the order at that index.
SelectOptimal(list, arimax_test_params) ==
    LET test_results == FlattenResults(list)
    IN IF test_results.exc # NoExc
       THEN [exc |-> test_results.exc, value |-> <<>>]
       ELSE IF test_results.value = <<>>
       THEN [exc |-> "ValueError", value |-> <<>>]
       ELSE [exc |-> NoExc,
             value |-> arimax_test_params[MinIndex(test_results.value)]]

\* CPU counts of the host (mp.cpu_count()) and values of max_cores (default 8).
CpuCounts == {1, 2}

MaxCoresValues == {1, 8}

AaoArgs ==
    [arimax_test_params : {Candidates(n) : n \in 0..MaxCandidates},
     exog_array : ExogValues, trend_params : TrendValues,
     penalty_criteria : PenaltyValues, generate_seasonal_params : BOOLEAN,
     n_jobs : -1..MaxCandidates, max_cores : MaxCoresValues, cpu_count : CpuCounts]

\* Mutant: trend parameters are not checked against the regressors.
AaoPreDispatchErrorMutant(a, jobs) ==
    CASE a.generate_seasonal_params -> "TypeError"
      [] jobs < 1 -> "ValueError"
      [] OTHER -> NoExc

\* What lines 283-309 raise before the pool is created: ValueError for trend
\* parameters without regressors (284), TypeError for calling the bool
\* generate_seasonal_params (297), ValueError of np.array_split for 0 sections
\* (309).
AaoPreDispatchError(a, jobs) ==
    CASE a.exog_array = None /\ a.trend_params # None -> "ValueError"
      [] a.generate_seasonal_params -> "TypeError"
      [] jobs < 1 -> "ValueError"
      [] OTHER -> NoExc

\* Lines 283-322: validation, n_jobs, the seasonal branch, array_split, Pool,
\* imap_unordered; the call then waits in the for loop.
AaoCall ==
    /\ aao_pc = "idle"
    /\ \E a \in AaoArgs :
         LET jobs == EffectiveJobs(a.n_jobs, a.cpu_count, a.max_cores, Len(a.arimax_test_params))
             raises == AaoPreDispatchError(a, jobs)
         IN /\ aao_in' = a
            /\ IF raises # NoExc
               THEN /\ aao_pc' = "raised"
                    /\ aao_out' = [exc |-> raises, value |-> <<>>]
                    /\ UNCHANGED <<pool, processes, chunks, task_result>>
               ELSE /\ aao_pc' = "collecting"
                    /\ aao_out' = [exc |-> NoExc, value |-> <<>>]
                    /\ pool' = "open"
                    /\ processes' = jobs
                    /\ chunks' = ArraySplit(a.arimax_test_params, jobs)
                    /\ task_result' = [c \in 1..jobs |-> Queued]
    /\ UNCHANGED <<completed, collected, results>>
    /\ UNCHANGED notAaoVars

\* A worker process of the pool runs task c: func(item) for the c-th chunk.
PoolWorkerRun(c) ==
    /\ pool = "open"
    /\ c \in 1..Len(chunks)
    /\ task_result[c].state = "queued"
    /\ \E fits \in [1..Len(chunks[c]) -> FitOutcomes] :
         LET item == <<chunks[c], "y_array", aao_in.exog_array, aao_in.trend_params, aao_in.penalty_criteria>>
             r == CallOptimize(ImapArgs(item), fits)
         IN task_result' = [task_result EXCEPT ![c] = Done(r, fits)]
    /\ completed' = Append(completed, c)
    /\ UNCHANGED <<aao_pc, aao_in, aao_out, pool, processes, chunks, collected, results>>
    /\ UNCHANGED notAaoVars

\* One iteration of the for loop (lines 313-323): the next result in completion
\* order; an exception of the worker is re-raised here.  After the last
\* iteration, lines 325-332: close, join, select, return.
AaoCollect ==
    /\ aao_pc = "collecting"
    /\ collected < Len(completed)
    /\ LET r == task_result[completed[collected + 1]]
           acc == results \o r.value
           sel == SelectOptimal(acc, aao_in.arimax_test_params)
       IN /\ collected' = collected + 1
          /\ IF r.exc # NoExc
             THEN /\ aao_pc' = "raised"
                  /\ aao_out' = [exc |-> r.exc, value |-> <<>>]
                  /\ UNCHANGED <<pool, results>>
             ELSE IF collected + 1 < Len(chunks)
             THEN /\ results' = acc
                  /\ UNCHANGED <<aao_pc, aao_out, pool>>
             ELSE /\ results' = acc
                  /\ pool' = "closed"
                  /\ aao_pc' = IF sel.exc = NoExc THEN "returned" ELSE "raised"
                  /\ aao_out' = [exc |-> sel.exc, value |-> sel.value]
    /\ UNCHANGED <<aao_in, processes, chunks, task_result, completed>>
    /\ UNCHANGED notAaoVars

Next == AaoCall \/ (\E c \in 1..MaxCandidates : PoolWorkerRun(c)) \/ AaoCollect

Spec == Init /\ [][Next]_vars

\* The call got as far as creating the pool and has ended.
AaoEndedAfterDispatch == pool # "none" /\ aao_pc \in {"returned", "raised"}

\* The scores in generation order: the results of the tasks, chunk after chunk.
ScoresByCandidate == Concat([c \in 1..Len(chunks) |-> task_result[c].value])

\* C1: whatever the order in which the chunks complete, the search returns the
\* same order, the one selected with every score paired with the candidate that
\* produced it.
C1_CompletionOrderInvariant ==
    AaoEndedAfterDispatch =>
        /\ aao_pc = "returned"
        /\ aao_out.value = aao_in.arimax_test_params[MinIndex(ScoresByCandidate)]

\* C2: the search returns a candidate whose score is the minimum over the scores
\* of all candidates, Inf (infeasible) being worse than every finite score.
C2_ReturnsMinimumScore ==
    AaoEndedAfterDispatch =>
        /\ aao_pc = "returned"
        /\ Len(ScoresByCandidate) = Len(aao_in.arimax_test_params)
        /\ \E i \in 1..Len(aao_in.arimax_test_params) :
              /\ aao_out.value = aao_in.arimax_test_params[i]
              /\ \A j \in 1..Len(aao_in.arimax_test_params) :
                    ScoresByCandidate[i] <= ScoresByCandidate[j]

\* min over the values given
MinOf(set) == CHOOSE x \in set : \A y \in set : x <= y

\* C9: the number of pool processes and of chunks is min(n_jobs, CPU count,
\* max_cores, number of candidates) when n_jobs >= 1, and min(CPU count,
\* max_cores, number of candidates) when n_jobs < 1.
C9_WorkerCountCapped ==
    pool # "none" =>
        LET a == aao_in
            len == Len(a.arimax_test_params)
            cap == IF a.n_jobs >= 1
                   THEN MinOf({a.n_jobs, a.cpu_count, a.max_cores, len})
                   ELSE MinOf({a.cpu_count, a.max_cores, len})
        IN processes = cap /\ Len(chunks) = cap

\* The score the fitness evaluation gives an order whose model does fit: Inf when
\* the fit fails, else the criterion the search was configured with.
ScoreOfFit(fit, penalty_criteria) ==
    IF fit.kind # "ok" THEN Inf
    ELSE IF penalty_criteria = "BIC" THEN fit.bic ELSE fit.aic

\* The scores of all candidates in generation order, once every chunk has been
\* run by a worker.
CandidateScores ==
    Concat([c \in 1..Len(chunks) |->
               [j \in 1..Len(chunks[c]) |->
                   ScoreOfFit(task_result[c].fits[j], aao_in.penalty_criteria)]])

AllTasksDone == \A c \in 1..Len(chunks) : task_result[c].state = "done"

\* Two or more candidates share the minimum score.
TiedMinimum(scores) ==
    \E i, j \in 1..Len(scores) :
        /\ i # j
        /\ scores[i] = scores[j]
        /\ \A k \in 1..Len(scores) : scores[i] <= scores[k]

\* C11: when several candidates share the minimum score (all of them infeasible
\* included), the search returns the first of them in generation order, whatever
\* the order in which the workers finished.
C11_TieBrokenByGenerationOrder ==
    (/\ AaoEndedAfterDispatch
     /\ AllTasksDone
     /\ aao_in.penalty_criteria \in {"AIC", "BIC"}
     /\ TiedMinimum(CandidateScores))
    => /\ aao_pc = "returned"
       /\ aao_out.value = aao_in.arimax_test_params[MinIndex(CandidateScores)]

----------------------------------------------------------------------------
(* smooth_lowess called directly (time_series_smoothing.py)                       *)

\* Longest series passed to smooth_lowess.
MaxSmLen == 4

\* The Series smooth_lowess is called with: two to MaxSmLen prices, under a
\* RangeIndex from 0 or under other labels.
SmSeries ==
    UNION {{[j \in 1..n |-> Relabel(f[j], off + j - 1)] :
               f \in [1..n -> PricePoints(0)], off \in IndexOffsets} :
           n \in 2..MaxSmLen}

\* Types of the arguments: y_series a Series or not, smoothing_window an int or not.
SmTypes == {"Series", "ndarray"} \X {"int", "float"}

\* One call smooth_lowess(y_series, smoothing_window): lines 76-82 check the
\* types, the rest is smooth_lowess above.
SmCall ==
    /\ sm_pc = "idle"
    /\ \E y_series \in SmSeries, window \in 2..(MaxSmLen + 1), types \in SmTypes, lowess \in LowessOutcomes :
         LET r == IF types[1] # "Series" \/ types[2] # "int"
                  THEN [exc |-> "TypeError", value |-> <<>>]
                  ELSE smooth_lowess(y_series, window, lowess)
         IN /\ sm_in' = [y_series |-> y_series, smoothing_window |-> window,
                         types |-> types]
            /\ sm_out' = r
            /\ sm_pc' = IF r.exc = NoExc THEN "returned" ELSE "raised"
    /\ UNCHANGED notSmVars

SmNext == SmCall

SpecSmooth == Init /\ [][SmNext]_vars

\* C12: for a valid input (a window in range, prices without NaN or zero and
\* above -1, where log1p is defined) the series smooth_lowess returns has the
\* length of its input and the index labels of its input, whatever the kind of
\* index.
C12_SameLengthAndIndex ==
    (/\ sm_pc = "returned"
     /\ \A j \in 1..Len(sm_in.y_series) : Log1pFinite(sm_in.y_series[j])) =>
        /\ Len(sm_out.value) = Len(sm_in.y_series)
        /\ \A j \in 1..Len(sm_in.y_series) : sm_out.value[j].i = sm_in.y_series[j].i

SmWellTyped == sm_in.types = <<"Series", "int">>

\* C13: for well-typed arguments smooth_lowess raises its input error exactly
\* when the window is below 3, the window exceeds the length of the series, or
\* the series holds a NaN or a zero.
C13_InputErrorIff ==
    (sm_pc # "idle" /\ SmWellTyped) =>
        ((sm_pc = "raised" /\ sm_out.exc = "ValueError")
         <=> \/ sm_in.smoothing_window < 3
             \/ sm_in.smoothing_window > Len(sm_in.y_series)
             \/ \E j \in 1..Len(sm_in.y_series) : IsMissing(sm_in.y_series[j]))

\* A window equal to the length of a series without NaN or zero was accepted.
C13_Witness ==
    /\ sm_pc = "returned"
    /\ SmWellTyped
    /\ sm_in.smoothing_window = Len(sm_in.y_series)
    /\ sm_in.smoothing_window = 3

----------------------------------------------------------------------------
(* process_missing_dates (data_preprocessing.py)                                  *)

\* Most rows of a frame passed in, and the days 1..MaxDay its dates are among.
MaxRows == 3

MaxDay == 4

\* Index labels: a date (day number n) or an integer position n.  A label of one
\* type never equals a label of the other.
DateLabel(d) == [t |-> "date", n |-> d]

IntLabel(n) == [t |-> "int", n |-> n]

\* Cells of the value columns: a number or the missing marker NaN.
CellNum(x) == [k |-> "num", v |-> x]

CellNaN == [k |-> "nan", v |-> 0]

\* A DataFrame is the sequence of its rows: the index label, the date column
\* (None when the frame has none), the value columns Close and Volume.
Row(index, date, close, volume) ==
    [index |-> index, date |-> date, Close |-> close, Volume |-> volume]

\* df.set_index(date_column): the date column becomes the index.
SetIndex(df) ==
    [k \in 1..Len(df) |-> [df[k] EXCEPT !.index = DateLabel(df[k].date[1]), !.date = None]]

\* Mutant: only neighbouring rows are compared.
IndexDuplicatedMutant(df) ==
    \E i \in 1..(Len(df) - 1) : df[i].index = df[i + 1].index

\* df.index.duplicated().any()
IndexDuplicated(df) ==
    \E i, j \in 1..Len(df) : i < j /\ df[i].index = df[j].index

\* df.index.min() / df.index.max() of a non-empty date index.
IndexMin(df) ==
    CHOOSE d \in {df[k].index.n : k \in 1..Len(df)} : \A k \in 1..Len(df) : d <= df[k].index.n

IndexMax(df) ==
    CHOOSE d \in {df[k].index.n : k \in 1..Len(df)} : \A k \in 1..Len(df) : d >= df[k].index.n

\* Mutant: the last day is left out.
DateRangeMutant(min_date, max_date) ==
    [k \in 1..(max_date - min_date) |-> DateLabel(min_date + k - 1)]

\* pd.date_range(min_date, max_date, freq='D'): every day, both ends included.
DateRange(min_date, max_date) ==
    [k \in 1..(max_date - min_date + 1) |-> DateLabel(min_date + k - 1)]

\* df.reindex(new_index) for a df without duplicate labels: the row of df at each
\* label of new_index, a row of NaN where df has none.
Reindex(df, new_index) ==
    [k \in 1..Len(new_index) |->
        IF \E j \in 1..Len(df) : df[j].index = new_index[k]
        THEN df[CHOOSE j \in 1..Len(df) : df[j].index = new_index[k]]
        ELSE Row(new_index[k], None, CellNaN, CellNaN)]

\* df.reset_index().rename(columns={'index': 'date'}): the index becomes the
\* column date and the frame gets a RangeIndex.
ResetIndex(df) ==
    [k \in 1..Len(df) |-> [df[k] EXCEPT !.index = IntLabel(k - 1), !.date = Some(df[k].index.n)]]

\* process_missing_dates(df, date_column).  reindexed tells whether line 64 was
\* reached.  Of an empty index min and max are NaT, which pd.date_range refuses.
process_missing_dates(df, date_column) ==
    LET indexed == IF date_column # None THEN SetIndex(df) ELSE df
    IN IF IndexDuplicated(indexed)
       THEN [exc |-> "ValueError", value |-> <<>>, reindexed |-> FALSE]
       ELSE IF indexed = <<>>
       THEN [exc |-> "ValueError", value |-> <<>>, reindexed |-> FALSE]
       ELSE LET date_range == DateRange(IndexMin(indexed), IndexMax(indexed))
                processed_df == Reindex(indexed, date_range)
            IN [exc |-> NoExc, value |-> ResetIndex(processed_df), reindexed |-> TRUE]

\* Close prices and volumes of the rows passed in.
CloseCells == {CellNaN, CellNum(5)}

VolumeCells == {CellNum(7)}

\* Frames with the dates in the index, in any order, duplicates possible.
DateIndexedFrames ==
    UNION {[1..n -> {Row(DateLabel(d), None, c, v) :
                        d \in 1..MaxDay, c \in CloseCells, v \in VolumeCells}] :
           n \in 0..MaxRows}

\* The same frame with the dates in a column named date under a RangeIndex.
WithDateColumn(df) ==
    [k \in 1..Len(df) |-> [df[k] EXCEPT !.index = IntLabel(k - 1), !.date = Some(df[k].index.n)]]

\* One call process_missing_dates(df) or process_missing_dates(df, 'date').
PmdCall ==
    /\ pmd_pc = "idle"
    /\ \E frame \in DateIndexedFrames, date_column \in {None, <<"date">>} :
         LET df == IF date_column = None THEN frame ELSE WithDateColumn(frame)
             r == process_missing_dates(df, date_column)
         IN /\ pmd_in' = [df |-> df, date_column |-> date_column]
            /\ pmd_out' = r
            /\ pmd_pc' = IF r.exc = NoExc THEN "returned" ELSE "raised"
    /\ UNCHANGED notPmdVars

PmdNext == PmdCall

SpecDates == Init /\ [][PmdNext]_vars

\* The date of a row of the input, wherever the input keeps its dates.
PmdInputDate(k) ==
    IF pmd_in.date_column = None THEN pmd_in.df[k].index.n ELSE pmd_in.df[k].date[1]

PmdInputDates == {PmdInputDate(k) : k \in 1..Len(pmd_in.df)}

PmdHasDuplicates ==
    \E i, j \in 1..Len(pmd_in.df) : i # j /\ PmdInputDate(i) = PmdInputDate(j)

\* C15: an input whose date index, or given date column, holds a duplicate date
\* makes process_missing_dates raise before any reindexing; no frame is returned.
C15_DuplicateDatesFatal ==
    (pmd_pc # "idle" /\ PmdHasDuplicates) =>
        /\ pmd_pc = "raised"
        /\ pmd_out.exc = "ValueError"
        /\ ~pmd_out.reindexed
        /\ pmd_out.value = <<>>

\* The error was raised for duplicates that are not in neighbouring rows, the
\* dates being in a column.
C15_Witness ==
    /\ pmd_pc = "raised"
    /\ pmd_in.date_column # None
    /\ Len(pmd_in.df) = 3
    /\ PmdInputDate(1) = PmdInputDate(3)
    /\ PmdInputDate(1) # PmdInputDate(2)

\* C16: for an input with unique dates (at least one) the result has exactly
\* one row for every day from the least to the greatest date, in increasing
\* order; a day of the input keeps its values, every other day holds NaN in all
\* value columns.
C16_DailyGridComplete ==
    (pmd_pc # "idle" /\ ~PmdHasDuplicates /\ pmd_in.df # <<>>) =>
        LET lo == CHOOSE d \in PmdInputDates : \A e \in PmdInputDates : d <= e
            hi == CHOOSE d \in PmdInputDates : \A e \in PmdInputDates : d >= e
            out == pmd_out.value
        IN /\ pmd_pc = "returned"
           /\ Len(out) = hi - lo + 1
           /\ \A k \in 1..Len(out) : out[k].date = Some(lo + k - 1)
           /\ \A k \in 1..Len(pmd_in.df) :
                 LET row == out[PmdInputDate(k) - lo + 1]
                 IN /\ row.Close = pmd_in.df[k].Close
                    /\ row.Volume = pmd_in.df[k].Volume
           /\ \A k \in 1..Len(out) :
                 lo + k - 1 \notin PmdInputDates
                     => out[k].Close = CellNaN /\ out[k].Volume = CellNaN

\* A frame given out of date order with a gap of two days was normalized.
C16_Witness ==
    /\ pmd_pc = "returned"
    /\ Len(pmd_in.df) = 2
    /\ PmdInputDate(1) = 4
    /\ PmdInputDate(2) = 1
    /\ Len(pmd_out.value) = 4
    /\ pmd_out.value[2].Close = CellNaN

----------------------------------------------------------------------------
(* pull_stock_price_history (data_scraper.py)                                     *)

\* interpolate_stock_prices as one function of its arguments and of what the
\* library calls inside it do: adf the outcomes of the ADF tests, mu_value what
\* the simplex search settles at, lowess what the smoother does.
interpolate_stock_prices(y_series, log_transform, allow_negative_values, adf, mu_value, lowess) ==
    LET y_nan == [j \in 1..Len(y_series) |->
                     IF IsZero(y_series[j]) THEN NaN(y_series[j].i) ELSE y_series[j]]
        observed == SelectSeq(y_series, LAMBDA p : ~IsZero(p) /\ ~IsNaN(p))
        no_nan_y == IF log_transform THEN Log1p(observed) ELSE observed
        r == make_stationary(no_nan_y, ip_max_diff, adf)
        mu == IF EstimatedMu(r.series) = {NaN(0)} THEN NaN(0) ELSE Num(0, mu_value)
        y == SeriesWhereNotNa(y_nan, r.series)
        filled == [j \in 1..Len(y) |-> IF ~IsNaN(y[j]) THEN y[j] ELSE Relabel(mu, y[j].i)]
        undiffed == CumSumTimes(filled, r.order)
        series_filled == IF log_transform THEN Expm1(undiffed) ELSE undiffed
        filled_smooth == smooth_lowess(NewSeries(series_filled), smoothing_window, lowess)
    IN IF NegativeValuesError(no_nan_y, log_transform, allow_negative_values)
       THEN [exc |-> "ValueError", value |-> <<>>]
       ELSE IF r.exc # NoExc
       THEN [exc |-> r.exc, value |-> <<>>]
       ELSE IF filled_smooth.exc # NoExc
       THEN [exc |-> filled_smooth.exc, value |-> <<>>]
       ELSE [exc |-> NoExc, value |-> SeriesFillNa(y_nan, filled_smooth.value)]

\* Close prices the provider reports.
ProviderCloseCells == {CellNaN, CellNum(2), CellNum(8)}

\* What stock.history returns: rows indexed by trading date in increasing order,
\* one per date, for some of the days 1..MaxDay (gaps: non-trading days, outages).
ProviderFrame(days, close) ==
    LET RECURSIVE Rows(_)
        Rows(d) == IF d > MaxDay THEN <<>>
                   ELSE (IF d \in days
                         THEN <<Row(DateLabel(d), None, close[d], CellNum(7))>>
                         ELSE <<>>) \o Rows(d + 1)
    IN Rows(1)

ProviderFrames ==
    {ProviderFrame(days, close) : days \in SUBSET (1..MaxDay), close \in [1..MaxDay -> ProviderCloseCells]}

\* Lines 163-189: what the date arguments are like.
PshDateArgs == {"valid", "end_in_future", "bad_lookback", "start_in_future", "start_after_end"}

\* The label a Series taken from a frame carries for a row: the position for a
\* RangeIndex, a value no position equals for a date.
SeriesLabel(l) == IF l.t = "int" THEN l.n ELSE 100 + l.n

\* stock_data[column] for the column Close, as a Series.
CloseSeries(df) ==
    [k \in 1..Len(df) |->
        IF df[k].Close.k = "nan" THEN NaN(SeriesLabel(df[k].index))
        ELSE Num(SeriesLabel(df[k].index), df[k].Close.v)]

\* df.loc[mask, 'interpolated_data'] = True: the column is created if need be,
\* the rows of the mask get True, the others keep what they had (NaN if new).
SetInterpolated(df, mask) ==
    [k \in 1..Len(df) |->
        [index |-> df[k].index, date |-> df[k].date, Close |-> df[k].Close,
         Volume |-> df[k].Volume,
         interpolated_data |-> IF mask[k] THEN "True"
                               ELSE IF df[k].interpolated_data = "absent" THEN "NaN"
                               ELSE df[k].interpolated_data]]

\* A frame as downloaded: no column interpolated_data yet.
Downloaded(df) ==
    [k \in 1..Len(df) |->
        [index |-> df[k].index, date |-> df[k].date, Close |-> df[k].Close,
         Volume |-> df[k].Volume, interpolated_data |-> "absent"]]

\* Index.isin(values)
IsIn(label, values) == \E k \in 1..Len(values) : values[k] = label

\* Lines 195-199: normalize the calendar and flag the rows whose index label is
\* not among the labels the downloaded frame had.
FlagMissingDates(stock_data) ==
    LET original_dates == [k \in 1..Len(stock_data) |-> stock_data[k].index]
        processed == process_missing_dates(stock_data, None)
        normalized == Downloaded(processed.value)
    IN IF processed.exc # NoExc
       THEN [exc |-> processed.exc, value |-> <<>>]
       ELSE [exc |-> NoExc,
             value |-> SetInterpolated(normalized,
                           [k \in 1..Len(normalized) |->
                               ~IsIn(normalized[k].index, original_dates)])]

\* Lines 201-207 for stock_columns = ['Close']: the column is replaced by its
\* interpolation and the rows where it changed are flagged (NaN != NaN holds).
InterpolateValues(stock_data, adf, mu_value, lowess) ==
    LET original_values == CloseSeries(stock_data)
        r == interpolate_stock_prices(original_values, TRUE, FALSE, adf, mu_value, lowess)
        cell(p) == IF p.k = "nan" THEN CellNaN
                   ELSE IF p.k = "num" THEN CellNum(p.v)
                   ELSE [k |-> p.k, v |-> p.v]
        replaced == [k \in 1..Len(stock_data) |->
                        [stock_data[k] EXCEPT !.Close = cell(r.value[k])]]
    IN IF r.exc # NoExc
       THEN [exc |-> r.exc, value |-> <<>>]
       ELSE [exc |-> NoExc,
             value |-> SetInterpolated(replaced,
                           [k \in 1..Len(replaced) |->
                               \/ IsNaN(original_values[k])
                               \/ r.value[k] # original_values[k]])]

\* Lines 163-193: the date arguments are validated and the history downloaded.
PshCall ==
    /\ psh_pc = "idle"
    /\ \E dates \in PshDateArgs, frame \in ProviderFrames, interpolate_missing_dates \in BOOLEAN, interpolate_missing_vals \in BOOLEAN :
         /\ psh_in' = [dates |-> dates, provider |-> frame,
                       interpolate_missing_dates |-> interpolate_missing_dates,
                       interpolate_missing_vals |-> interpolate_missing_vals]
         /\ IF dates # "valid"
            THEN /\ psh_pc' = "raised"
                 /\ psh_out' = [exc |-> "ValueError", value |-> <<>>]
            ELSE /\ psh_pc' = "downloaded"
                 /\ psh_out' = [exc |-> NoExc, value |-> <<>>]
    /\ UNCHANGED notPshVars

\* Lines 195-209: calendar normalization, value interpolation, return.
PshProcess ==
    /\ psh_pc = "downloaded"
    /\ LET stock_data == Downloaded(psh_in.provider)
           dated == IF psh_in.interpolate_missing_dates
                    THEN FlagMissingDates(stock_data)
                    ELSE [exc |-> NoExc, value |-> stock_data]
           finish(r) == /\ psh_out' = r
                        /\ psh_pc' = IF r.exc = NoExc THEN "returned" ELSE "raised"
       IN IF dated.exc = NoExc /\ psh_in.interpolate_missing_vals
          THEN \E adf \in [0..ip_max_diff -> AdfOutcomes], mu_value \in MuValues, lowess \in LowessOutcomes :
                  finish(InterpolateValues(dated.value, adf, mu_value, lowess))
          ELSE finish(dated)
    /\ UNCHANGED psh_in
    /\ UNCHANGED notPshVars

PshNext == PshCall \/ PshProcess

SpecPull == Init /\ [][PshNext]_vars

\* The days the provider's frame has a row for.
ProviderDays == {psh_in.provider[k].index.n : k \in 1..Len(psh_in.provider)}

\* C17: after calendar normalization alone (value interpolation disabled) the
\* interpolated_data flag is set on exactly the rows whose date the provider's
\* data did not have, and on no row whose date it had.
C17_SynthesizedRowsFlagged ==
    (/\ psh_pc = "returned"
     /\ psh_in.interpolate_missing_dates
     /\ ~psh_in.interpolate_missing_vals)
    => \A k \in 1..Len(psh_out.value) :
          psh_out.value[k].interpolated_data = "True"
              <=> psh_out.value[k].date[1] \notin ProviderDays

----------------------------------------------------------------------------
(* arimax_forecast (arimax_optimization_and_forecasting.py)                       *)

\* Largest forecast_length passed.
MaxForecast == 3

\* A Python value as its type and, for numbers, its value (True is 1, False 0;
\* the float and np.int64 values are whole numbers here).
Typed(type, value) == [t |-> type, v |-> value]

\* isinstance(x, int): int and its subclass bool.
IsInstanceInt(x) == x.t \in {"int", "bool"}

\* Values of forecast_length.
ForecastLengths ==
    {Typed("int", n) : n \in -1..MaxForecast}
        \cup {Typed("float", 2), Typed("np.int64", 2), Typed("bool", 1), Typed("bool", 0),
              Typed("str", 0), Typed("NoneType", 0)}

\* Types of y_series.
SeriesTypes == {"Series", "ndarray", "list", "DataFrame", "NoneType"}

\* What the model does: the constructor rejects the arguments, fit() raises, or
\* the model is fitted.
ForecastModels == {"ok", "fit_error", "invalid_order"}

\* Mutant: a forecast_length of 0 passes.
ArimaxForecastMutant(y_type, forecast_length, model) ==
    IF y_type \notin {"Series", "ndarray"}
    THEN [exc |-> "ValueError", value |-> <<>>, constructed |-> 0, fitted |-> 0]
    ELSE IF ~IsInstanceInt(forecast_length) \/ forecast_length.v < 0
    THEN [exc |-> "ValueError", value |-> <<>>, constructed |-> 0, fitted |-> 0]
    ELSE IF model = "invalid_order"
    THEN [exc |-> "ValueError", value |-> <<>>, constructed |-> 0, fitted |-> 0]
    ELSE IF model = "fit_error"
    THEN [exc |-> "FitError", value |-> <<>>, constructed |-> 1, fitted |-> 0]
    ELSE [exc |-> NoExc, value |-> [k \in 1..forecast_length.v |-> k],
          constructed |-> 1, fitted |-> 1]

\* arimax_forecast: lines 387-391 check the arguments, 395-403 construct the
\* model, 405 fits it, 406-408 forecast forecast_length steps.  constructed and
\* fitted count the models constructed and fitted.
arimax_forecast(y_type, forecast_length, model) ==
    IF y_type \notin {"Series", "ndarray"}
    THEN [exc |-> "ValueError", value |-> <<>>, constructed |-> 0, fitted |-> 0]
    ELSE IF ~IsInstanceInt(forecast_length) \/ forecast_length.v <= 0
    THEN [exc |-> "ValueError", value |-> <<>>, constructed |-> 0, fitted |-> 0]
    ELSE IF model = "invalid_order"
    THEN [exc |-> "ValueError", value |-> <<>>, constructed |-> 0, fitted |-> 0]
    ELSE IF model = "fit_error"
    THEN [exc |-> "FitError", value |-> <<>>, constructed |-> 1, fitted |-> 0]
    ELSE [exc |-> NoExc, value |-> [k \in 1..forecast_length.v |-> k],
          constructed |-> 1, fitted |-> 1]

\* One call arimax_forecast(y_series, forecast_length, arima_params).
FcCall ==
    /\ fc_pc = "idle"
    /\ \E y_type \in SeriesTypes, forecast_length \in ForecastLengths, model \in ForecastModels :
         LET r == arimax_forecast(y_type, forecast_length, model)
         IN /\ fc_in' = [y_type |-> y_type, forecast_length |-> forecast_length,
                         model |-> model]
            /\ fc_out' = r
            /\ fc_pc' = IF r.exc = NoExc THEN "returned" ELSE "raised"
    /\ UNCHANGED notFcVars

FcNext == FcCall

SpecForecast == Init /\ [][FcNext]_vars

\* forecast_length is a positive integer (a bool being an int in Python).
FcPositiveInteger == IsInstanceInt(fc_in.forecast_length) /\ fc_in.forecast_length.v > 0

\* C18: arimax_forecast raises its input error when forecast_length is not a
\* positive integer or the series is neither a Series nor an ndarray, and then
\* no model has been constructed or fitted.
C18_InputErrorBeforeFit ==
    (/\ fc_pc # "idle"
     /\ ~FcPositiveInteger \/ fc_in.y_type \notin {"Series", "ndarray"})
    => /\ fc_pc = "raised"
       /\ fc_out.exc = "ValueError"
       /\ fc_out.constructed = 0
       /\ fc_out.fitted = 0

\* The error was raised for forecast_length = 0 on a Series whose model would fit.
C18_Witness ==
    /\ fc_pc = "raised"
    /\ fc_in.y_type = "Series"
    /\ fc_in.forecast_length = Typed("int", 0)
    /\ fc_in.model = "ok"
    /\ fc_out.constructed = 0

----------------------------------------------------------------------------
(* calculate_forecast_prediction_interval                                         *)
(* (arimax_optimization_and_forecasting.py)                                       *)

\* Longest historical series passed.
MaxHist == 4

\* Values of the historical series and of the forecast.
HistValues == {0, 1, 3}

ForecastValues == {5, 6}

\* z = stats.norm.ppf(1 - alpha / 2) for the alpha passed, as whole numbers.
ZValues == {1, 2}

RECURSIVE SumSeq(_)
SumSeq(a) == IF a = <<>> THEN 0 ELSE Head(a) + SumSeq(Tail(a))

\* y_array[: -n] - y_array[n :] for n >= 1: both slices have len - n elements
\* when len > n and none otherwise.
Residuals(y_array, n) ==
    [i \in 1..(IF Len(y_array) > n THEN Len(y_array) - n ELSE 0) |->
        y_array[i] - y_array[i + n]]

\* A non-negative real known by its square num / den, or NaN.
Root(num, den) == [nan |-> FALSE, num |-> num, den |-> den]

RootNaN == [nan |-> TRUE, num |-> 0, den |-> 1]

\* np.std(residuals): the square root of (n * sum r^2 - (sum r)^2) / n^2, NaN for
\* no residuals.
Std(residuals) ==
    LET n == Len(residuals)
        squares == [i \in 1..n |-> residuals[i] * residuals[i]]
    IN IF n = 0 THEN RootNaN
       ELSE Root(n * SumSeq(squares) - SumSeq(residuals) * SumSeq(residuals), n * n)

\* margin[k - 1] = z * std_residuals * sqrt(k), k = 1..len(forecast)
Margin(z, std_residuals, k) ==
    IF std_residuals.nan THEN RootNaN
    ELSE Root(z * z * std_residuals.num * k, std_residuals.den)

\* forecast -/+ margin: the number centre + sign * margin, NaN when the margin is;
\* i is the label in the new Series.
Bound(label, centre, sign, margin) ==
    [i |-> label, nan |-> margin.nan, centre |-> IF margin.nan THEN 0 ELSE centre,
     sign |-> sign, margin |-> margin]

\* Mutant: the residuals are taken between the end of the history and the
\* forecast.
PredictionIntervalMutant(y_array, forecast, z) ==
    LET n == IF Len(y_array) < Len(forecast) THEN Len(y_array) ELSE Len(forecast)
        residuals == [i \in 1..n |-> y_array[Len(y_array) - n + i] - forecast[i]]
        std_residuals == Std(residuals)
    IN [exc |-> NoExc,
        lower_bound |-> [k \in 1..Len(forecast) |->
                            Bound(k - 1, forecast[k], -1, Margin(z, std_residuals, k))],
        upper_bound |-> [k \in 1..Len(forecast) |->
                            Bound(k - 1, forecast[k], 1, Margin(z, std_residuals, k))]]

\* calculate_forecast_prediction_interval(y_series, y_forecast, alpha), z being
\* the quantile of alpha.  With an empty forecast the slices are y[:0] and y[0:],
\* which broadcast only when y has at most one element.
calculate_forecast_prediction_interval(y_array, forecast, z) ==
    IF forecast = <<>> /\ Len(y_array) > 1
    THEN [exc |-> "ValueError", lower_bound |-> <<>>, upper_bound |-> <<>>]
    ELSE LET std_residuals == Std(Residuals(y_array, Len(forecast)))
         IN [exc |-> NoExc,
             lower_bound |-> [k \in 1..Len(forecast) |->
                                 Bound(k - 1, forecast[k], -1, Margin(z, std_residuals, k))],
             upper_bound |-> [k \in 1..Len(forecast) |->
                                 Bound(k - 1, forecast[k], 1, Margin(z, std_residuals, k))]]

HistSeries == UNION {[1..n -> HistValues] : n \in 0..MaxHist}

Forecasts == UNION {[1..n -> ForecastValues] : n \in 0..MaxForecast}

\* One call calculate_forecast_prediction_interval(y_series, y_forecast, alpha).
PiCall ==
    /\ pi_pc = "idle"
    /\ \E y_series \in HistSeries, y_forecast \in Forecasts, z \in ZValues :
         LET r == calculate_forecast_prediction_interval(y_series, y_forecast, z)
         IN /\ pi_in' = [y_series |-> y_series, y_forecast |-> y_forecast, z |-> z]
            /\ pi_out' = r
            /\ pi_pc' = IF r.exc = NoExc THEN "returned" ELSE "raised"
    /\ UNCHANGED notPiVars

PiNext == PiCall

SpecInterval == Init /\ [][PiNext]_vars

\* C19: for every historical series (of two values or more) and every forecast of
\* length L >= 1 the bounds have length L each, lie symmetrically about the forecast with a margin
\* that is a number >= 0 (so lower <= forecast <= upper), the margin of step k is
\* sqrt(k) times that of step 1, and the width never shrinks from one step to the
\* next.
C19_SymmetricWideningInterval ==
    (pi_pc # "idle" /\ Len(pi_in.y_series) >= 2 /\ Len(pi_in.y_forecast) >= 1) =>
        LET L == Len(pi_in.y_forecast)
            lo == pi_out.lower_bound
            up == pi_out.upper_bound
        IN /\ pi_pc = "returned"
           /\ Len(lo) = L /\ Len(up) = L
           /\ \A k \in 1..L :
                 /\ ~lo[k].nan /\ ~up[k].nan
                 /\ lo[k].centre = pi_in.y_forecast[k] /\ up[k].centre = pi_in.y_forecast[k]
                 /\ lo[k].sign = -1 /\ up[k].sign = 1
                 /\ lo[k].margin = up[k].margin
                 /\ up[k].margin.num >= 0 /\ up[k].margin.den > 0
                 /\ up[k].margin.den = up[1].margin.den
                 /\ up[k].margin.num = k * up[1].margin.num
           /\ \A k \in 1..(L - 1) : up[k].margin.num <= up[k + 1].margin.num

\* C20: a search asked for trend parameters without exogenous regressors fails
\* with the configuration error before dispatch: no pool is created, no chunk is
\* dispatched, no worker runs and no model is fitted.
C20_TrendWithoutExogFatal ==
    (/\ aao_pc # "idle"
     /\ aao_in.exog_array = None
     /\ aao_in.trend_params # None)
    => /\ aao_pc = "raised"
       /\ aao_out.exc = "ValueError"
       /\ pool = "none"
       /\ processes = 0
       /\ chunks = <<>>
       /\ task_result = <<>>
       /\ completed = <<>>

\* The error was raised for a search over two or more candidates that would
\* otherwise have been dispatched.
C20_Witness ==
    /\ aao_pc = "raised"
    /\ aao_in.exog_array = None
    /\ aao_in.trend_params # None
    /\ ~aao_in.generate_seasonal_params
    /\ Len(aao_in.arimax_test_params) >= 2
    /\ pool = "none"

\* C21: with a penalty criterion other than 'AIC' and 'BIC' (and a valid trend
\* configuration) the fitness evaluation of the first order raises the input
\* error, whether the fit of that order succeeds or not; no score, Inf included,
\* is produced.
C21_MalformedCriterionFatal ==
    (/\ opt_pc # "idle"
     /\ opt_in.params_chunk # <<>>
     /\ ~(opt_in.exog_array = None /\ opt_in.trend_params # None)
     /\ opt_in.penalty_criteria \notin {"AIC", "BIC"})
    => /\ opt_pc = "raised"
       /\ opt_out.exc = "ValueError"
       /\ opt_out.evaluated = 1
       /\ opt_out.value = <<>>

\* C22: generate_auto_arimax_test_params raises whenever seasonal generation is
\* requested and seasonality_trend is None, whatever the other parameters, and
\* returns no candidate list.
C22_SeasonalWithoutPeriodFatal ==
    (/\ gen_pc # "idle"
     /\ gen_in.generate_seasonal_params
     /\ gen_in.seasonality_trend = None)
    => gen_pc = "raised" /\ gen_out = <<>>

\* The error was raised for a call with d given and all maxima at their bounds.
C22_Witness ==
    /\ gen_pc = "raised"
    /\ gen_in.generate_seasonal_params
    /\ gen_in.seasonality_trend = None
    /\ gen_in.d # None
    /\ gen_in.max_p = MaxOrder
    /\ gen_in.max_Q = MaxSeasonalOrder

\* The search with its scheduling: a pool worker that has a queued task runs it,
\* and the caller's for loop takes a result that is ready.
SpecFair ==
    /\ Init
    /\ [][Next]_vars
    /\ WF_vars(AaoCollect)
    /\ \A c \in 1..MaxCandidates : WF_vars(PoolWorkerRun(c))

\* C23: a dispatched search terminates with every chunk completed and collected:
\* the call ends (returns or raises) only after the pool has run all chunks and
\* the loop has taken all their results.
C23_SearchRunsToCompletion ==
    (aao_pc = "collecting")
        ~> (/\ aao_pc \in {"returned", "raised"}
            /\ AllTasksDone
            /\ collected = Len(chunks))

\* np.array_split gave one chunk per worker process, contiguous, in order, of
\* sizes that differ by one at most.
ChunksPartition ==
    /\ Len(chunks) = processes
    /\ Concat(chunks) = aao_in.arimax_test_params
    /\ \A c, e \in 1..Len(chunks) : Len(chunks[c]) - Len(chunks[e]) \in {-1, 0, 1}

\* C24: the candidate list is split as ChunksPartition says; every worker scores
\* each order of its chunk, the i-th score being that of the i-th order; the
\* collected results hold exactly one score per candidate.
C24_OneScorePerCandidate ==
    (/\ AaoEndedAfterDispatch
     /\ AllTasksDone
     /\ aao_in.penalty_criteria \in {"AIC", "BIC"}
     /\ \A c \in 1..Len(chunks) : \A j \in 1..Len(chunks[c]) :
            task_result[c].fits[j].kind # "invalid_order")
    => /\ ChunksPartition
       /\ \A c \in 1..Len(chunks) :
             /\ task_result[c].exc = NoExc
             /\ Len(task_result[c].value) = Len(chunks[c])
             /\ \A j \in 1..Len(chunks[c]) :
                   task_result[c].value[j]
                       = ScoreOfFit(task_result[c].fits[j], aao_in.penalty_criteria)
       /\ Len(results) = Len(aao_in.arimax_test_params)

\* C30: no call of auto_arimax_optimizer that created a pool ends while the pool
\* is still open: on return and on every error after Pool() the pool is closed.
C30_PoolClosedOnExit ==
    AaoEndedAfterDispatch => pool = "closed"

\* C25: an order k > 0 returned by make_stationary is the least accepted one (the
\* input differenced k times passes the test, differenced fewer times it does
\* not), the returned series is the input differenced k times and has k points
\* fewer, and the test is run max_diff + 1 times at most.
C25_LeastAcceptedOrder ==
    /\ ms_pc # "idle" => ms_out.tests <= ms_in.max_diff + 1
    /\ (ms_pc = "returned" /\ ms_out.order > 0) =>
          /\ MsVerdict(ms_out.order) = "stationary"
          /\ \A level \in 0..(ms_out.order - 1) : MsVerdict(level) = "not_stationary"
          /\ ms_out.series = DiffTimes(ms_in.y_series, ms_out.order)
          /\ Len(ms_out.series) = Len(ms_in.y_series) - ms_out.order

\* Order 1 was returned although max_diff allowed 2: the first difference passed.
C25_Witness ==
    /\ ms_pc = "returned"
    /\ ms_in.max_diff = 2
    /\ ms_out.order = 1
    /\ ms_out.tests = 2
    /\ Len(ms_in.y_series) = 4

\* C26: the series handed to the smoother holds, at every observed position, the
\* original observed value, for both settings of log_transform and every
\* differencing order make_stationary returned.
C26_ReconstructionInPriceUnits ==
    ip_pc = "filled" =>
        /\ Len(ip_loc.series_filled) = Len(ip_in.y_series)
        /\ \A j \in 1..Len(ip_in.y_series) :
              ~IsMissing(ip_in.y_series[j])
                  => Relabel(ip_loc.series_filled[j], 0) = Relabel(ip_in.y_series[j], 0)

\* C27: the margins of the interval are those of the call with the same history
\* and alpha on any other forecast of the same length.
C27_MarginIndependentOfForecast ==
    pi_pc = "returned" =>
        \A other \in Forecasts :
            Len(other) = Len(pi_in.y_forecast) =>
                LET r == calculate_forecast_prediction_interval(pi_in.y_series, other, pi_in.z)
                IN \A k \in 1..Len(other) :
                      /\ r.upper_bound[k].margin = pi_out.upper_bound[k].margin
                      /\ r.lower_bound[k].margin = pi_out.lower_bound[k].margin

\* A call on a history longer than the forecast, with a margin above 0.
C27_Witness ==
    /\ pi_pc = "returned"
    /\ Len(pi_in.y_forecast) = 2
    /\ Len(pi_in.y_series) = 4
    /\ ~pi_out.upper_bound[2].margin.nan
    /\ pi_out.upper_bound[2].margin.num > 0

-----------------------------------------------------------------------------
(* ForecastARIMAX: one object and the sequence of fit() and forecast() calls *)
(* made on it.  The data (y_series, X_df) are not represented: what the      *)
(* search, the ARIMA constructor, ARIMA.fit and results.forecast do with     *)
(* them is drawn when the call is made.                                      *)

\* Calls made on one object.
MaxCalls == 4

\* t[:n] and t[n:] of a tuple.
SliceTo(t, n) == SubSeq(t, 1, Min(n, Len(t)))

SliceFrom(t, n) == SubSeq(t, n + 1, Len(t))

\* How auto_arimax_optimizer ends when fit() calls it, by its interface: it
\* raises, or returns one of arimax_test_params (line 330; which one depends
\* on the scores and on the order in which the chunks complete).  With the
\* dispatch of line 313 as PoolWorkerRun models it, every call ends in the
\* first branch.
SearchOutcomes(arimax_test_params) ==
    {[exc |-> "TypeError", value |-> <<>>]}
        \cup {[exc |-> NoExc, value |-> arimax_test_params[i]] :
                 i \in 1..Len(arimax_test_params)}

\* The refit of lines 164-176: the constructor raises, fit() raises, or the
\* fitted model is returned.
RefitOutcomes == {"ARIMA", "ARIMA.fit", "fitted"}

\* sm.tsa.arima.ARIMA(order=optimal_params[:3], seasonal_order=optimal_params[3:]
\* if len(optimal_params) > 3 else None), as far as the orders go.
ArimaModel(optimal_params) ==
    [order |-> SliceTo(optimal_params, 3),
     seasonal_order |-> IF Len(optimal_params) > 3
                        THEN Some(SliceFrom(optimal_params, 3))
                        ELSE None]

\* fit(): the search result is stored in optimal_params first; model_fit is
\* assigned last, when constructor and fit have not raised.
fit(obj, search, refit) ==
    IF search.exc # NoExc
    THEN [obj |-> obj, exc |-> search.exc, raised_by |-> "auto_arimax_optimizer"]
    ELSE LET stored == [obj EXCEPT !.optimal_params = Some(search.value)]
         IN IF refit # "fitted"
            THEN [obj |-> stored, exc |-> "LibraryError", raised_by |-> refit]
            ELSE [obj |-> [stored EXCEPT !.model_fit = Some(ArimaModel(stored.optimal_params[1]))],
                  exc |-> NoExc, raised_by |-> "none"]

\* Mutant: forecast() looks at optimal_params to tell whether fit() was called.
NotFittedMutant(obj) == obj.optimal_params = None

\* Line 179: self.model_fit is None.
NotFitted(obj) == obj.model_fit = None

\* What self.model_fit.forecast(steps, exog) does: returns the forecast or raises.
ForecastOutcomes == {"returns", "raises"}

\* forecast(steps, exog): ValueError when the object is not fitted, else what
\* the fitted model's forecast does.
forecast(obj, steps, outcome) ==
    IF NotFitted(obj)
    THEN [exc |-> "ValueError", raised_by |-> "not_fitted", value |-> None]
    ELSE IF obj.model_fit = None
    THEN [exc |-> "AttributeError", raised_by |-> "model_fit.forecast", value |-> None]
    ELSE IF outcome = "raises"
    THEN [exc |-> "LibraryError", raised_by |-> "model_fit.forecast", value |-> None]
    ELSE [exc |-> NoExc, raised_by |-> "none",
          value |-> Some([model |-> obj.model_fit[1], steps |-> steps])]

\* The constructor's arguments (the maxima default to 5, 2, 5 in the code).
FaArgs ==
    [max_p : 0..MaxOrder, max_d : {0}, max_q : {0},
     d : {None, Some(1)},
     generate_seasonal_params : BOOLEAN,
     max_P : {0}, max_D : {0}, max_Q : {0},
     seasonality_trend : {None, Some(4)},
     penalty_criteria : {"AIC", "BIC"}]

\* ForecastARIMAX(...): the candidates are generated, optimal_params and
\* model_fit start as None; an error of the generator leaves no object.
FaNew ==
    /\ fa_pc = "none"
    /\ \E a \in FaArgs :
         LET r == generate_auto_arimax_test_params(
                      a.max_p, a.max_d, a.max_q, a.d, a.generate_seasonal_params,
                      a.max_P, a.max_D, a.max_Q, a.seasonality_trend)
         IN IF r.exc # NoExc
            THEN /\ fa_pc' = "raised"
                 /\ fa_obj' = fa_obj
            ELSE /\ fa_pc' = "ready"
                 /\ fa_obj' = [arimax_test_params |-> r.value,
                               penalty_criteria |-> a.penalty_criteria,
                               optimal_params |-> None,
                               model_fit |-> None]
    /\ UNCHANGED fa_hist
    /\ UNCHANGED notFaVars

\* One call of fit() on the object.
FaFit ==
    /\ fa_pc = "ready"
    /\ Len(fa_hist) < MaxCalls
    /\ \E search \in SearchOutcomes(fa_obj.arimax_test_params), refit \in RefitOutcomes :
         LET r == fit(fa_obj, search, refit)
         IN /\ fa_obj' = r.obj
            /\ fa_hist' = Append(fa_hist, [op |-> "fit", exc |-> r.exc,
                                           raised_by |-> r.raised_by, value |-> None])
    /\ UNCHANGED fa_pc
    /\ UNCHANGED notFaVars

\* One call of forecast() on the object.
FaForecast ==
    /\ fa_pc = "ready"
    /\ Len(fa_hist) < MaxCalls
    /\ \E steps \in 1..2, outcome \in ForecastOutcomes :
         LET r == forecast(fa_obj, steps, outcome)
         IN fa_hist' = Append(fa_hist, [op |-> "forecast", exc |-> r.exc,
                                        raised_by |-> r.raised_by, value |-> r.value])
    /\ UNCHANGED <<fa_pc, fa_obj>>
    /\ UNCHANGED notFaVars

FaNext == FaNew \/ FaFit \/ FaForecast

SpecClass == Init /\ [][FaNext]_vars

\* A fit() call among the first n - 1 calls completed without raising.
FitCompletedBefore(n) ==
    \E m \in 1..(n - 1) : fa_hist[m].op = "fit" /\ fa_hist[m].exc = NoExc

\* C28: a forecast() call made while no fit() has completed on the object raises
\* the not-fitted ValueError and returns nothing; one made after a fit() has
\* completed does not raise that error.
C28_ForecastNeedsCompletedFit ==
    \A n \in 1..Len(fa_hist) :
        fa_hist[n].op = "forecast" =>
            IF FitCompletedBefore(n)
            THEN fa_hist[n].raised_by # "not_fitted"
            ELSE /\ fa_hist[n].exc = "ValueError"
                 /\ fa_hist[n].raised_by = "not_fitted"
                 /\ fa_hist[n].value = None

\* A fit() that raised after the search had returned, a forecast() that raised
\* the not-fitted error, a fit() that completed, a forecast() that returned.
C28_Witness ==
    /\ Len(fa_hist) = 4
    /\ fa_hist[1].op = "fit" /\ fa_hist[1].raised_by \in {"ARIMA", "ARIMA.fit"}
    /\ fa_hist[2].op = "forecast" /\ fa_hist[2].raised_by = "not_fitted"
    /\ fa_hist[3].op = "fit" /\ fa_hist[3].exc = NoExc
    /\ fa_hist[4].op = "forecast" /\ fa_hist[4].exc = NoExc

=============================================================================
